---- MODULE Spec2Model ----
(***************************************************************************)
(* A model of cmaps: the list-backed colormap value type                   *)
(* (cmaps/main.py, ListedColormap), the registry scan of                   *)
(* UniversalColormap.__init__ and the lookup facade of cmaps/__init__.py.  *)
(*                                                                         *)
(* Conventions.                                                            *)
(*  - A Python str is a sequence of one-character strings, so that         *)
(*    endswith, slicing and concatenation are computed, not assumed.       *)
(*  - An optional int (int | None) is <<>> for None and <<n>> for n.       *)
(*  - A numpy array is [ndim, cols, dtype, data]: for ndim = 2, data is    *)
(*    the sequence of rows and cols the row width; for ndim = 1, data is   *)
(*    the sequence of scalars and cols = 0.                                *)
(*  - A float channel is a fixed-point integer, 1.0 being Unit.            *)
(*  - A call returns an outcome: [kind |-> "ok", cmap |-> c] or            *)
(*    [kind |-> <the exception raised>, what |-> <its message>].           *)
(***************************************************************************)
EXTENDS Integers, Sequences, FiniteSets, TLC

(* --------------------------- bounds ----------------------------------- *)
Unit == 4          \* fixed-point value of the float 1.0
MaxLut == 3        \* largest lutsize / target length / repeat count drawn
MaxLen == 4        \* longest colour array an operation may produce
MaxOps == 1        \* operations chained on one colormap value

(* --------------------------- Python values ---------------------------- *)
None == <<>>
Some(n) == <<n>>
\* mutant of Truthy: the test `is not None`, which lets 0 through
Truthy_isNotNone(opt) == opt # None
\* Python truthiness of an int | None (`if N:`, `if lutsize:`)
Truthy(opt) == opt # None /\ opt[1] # 0

Min(a, b) == IF a < b THEN a ELSE b
Max(a, b) == IF a > b THEN a ELSE b

Suffix_r == <<"_", "r">>
\* str.endswith('_r')
EndsWith_r(s) == Len(s) >= 2 /\ SubSeq(s, Len(s) - 1, Len(s)) = Suffix_r
\* cname[:-2]
DropLast2(s) == SubSeq(s, 1, Len(s) - 2)

Err(kind) == [kind |-> kind, what |-> ""]
\* the two ValueErrors the lookup can end in
InvalidSize == [kind |-> "ValueError", what |-> "number of samples must be non-negative"]
NotFound == [kind |-> "ValueError", what |-> "not a valid colormap name"]
Ok(c) == [kind |-> "ok", cmap |-> c]

(* --------------------------- numpy ------------------------------------ *)
Arr2(w, rows) == [ndim |-> 2, cols |-> w, dtype |-> "f", data |-> rows]
Arr1(dt, xs) == [ndim |-> 1, cols |-> 0, dtype |-> dt, data |-> xs]

\* mutant of Take: the cut one entry short
Take_short(s, n) ==
    LET stop == IF n < 0 THEN Max(Len(s) + n, 0) ELSE Min(n, Len(s))
    IN SubSeq(s, 1, stop - 1)
\* s[:n] for an int n of any sign
Take(s, n) ==
    LET stop == IF n < 0 THEN Max(Len(s) + n, 0) ELSE Min(n, Len(s))
    IN SubSeq(s, 1, stop)

\* np.repeat(a, r, axis=0): every element r times consecutively
RepeatEach(s, r) == [i \in 1..(Len(s) * r) |-> s[((i - 1) \div r) + 1]]

\* np.flipud
Flip(s) == [i \in 1..Len(s) |-> s[Len(s) + 1 - i]]

\* np.interp(np.linspace(0,1,k), np.linspace(0,1,n), fp) at sample j (0-based),
\* for n >= 1: the stops are i/(n-1), the sample is j/(k-1)
InterpAt(fp, k, j) ==
    LET n == Len(fp) IN
    IF n = 1 \/ k = 1 THEN fp[1]
    ELSE LET i == (j * (n - 1)) \div (k - 1)
             rem == (j * (n - 1)) % (k - 1)
         IN IF i >= n - 1 THEN fp[n]
            ELSE fp[i + 1] + ((fp[i + 2] - fp[i + 1]) * rem) \div (k - 1)

(* --------------------------- ListedColormap --------------------------- *)
PyList(arr) == [type |-> "list", arr |-> arr, spec |-> <<>>]
PyArray(arr) == [type |-> "ndarray", arr |-> arr, spec |-> <<>>]
PyStr(s) == [type |-> "str", arr |-> Arr1("f", <<>>), spec |-> s]
PyOther == [type |-> "other", arr |-> Arr1("f", <<>>), spec |-> <<>>]

Cmap(name, arr, n, mono) ==
    [name |-> name, colors |-> arr, N |-> n, monochrome |-> mono, cls |-> "cmaps"]

\* the extension of a short colour list to N entries (main.py:64)
Extend(data, n) == Take(RepeatEach(data, (n \div Len(data)) + 1), n)

\* ListedColormap.__init__(colors, name, N)
ListedColormap(colors, name, N) ==
    IF colors.type \in {"list", "tuple", "ndarray"} THEN
        LET a == colors.arr
            L == Len(a.data)
        IN IF Truthy(N) /\ N[1] > L /\ L = 0 THEN Err("ZeroDivisionError")
           ELSE LET d == IF ~Truthy(N) THEN a.data
                         ELSE IF N[1] < L THEN Take(a.data, N[1])
                         ELSE IF N[1] > L THEN Extend(a.data, N[1])
                         ELSE a.data
                IN Ok(Cmap(name, [a EXCEPT !.data = d], Len(d), FALSE))
    ELSE IF colors.type = "str" THEN
        IF N = None THEN Err("ValueError")
        ELSE Ok(Cmap(name, Arr1(IF N[1] > 0 THEN "U" ELSE "f",
                                [i \in 1..N[1] |-> colors.spec]), N[1], TRUE))
    ELSE Err("TypeError")

\* mutant of reversed: the colours handed on unflipped
reversed_unflipped(self, name) ==
    LET nm == IF name = None THEN self.name \o Suffix_r ELSE name[1]
    IN ListedColormap(PyArray(self.colors), nm, Some(self.N))
\* ListedColormap.reversed(name=None)
reversed(self, name) ==
    LET nm == IF name = None THEN self.name \o Suffix_r ELSE name[1]
        colors_r == [self.colors EXCEPT !.data = Flip(self.colors.data)]
    IN ListedColormap(PyArray(colors_r), nm, Some(self.N))

Prefix_interp == <<"i", "n", "t", "e", "r", "p", "_">>

\* ListedColormap.interp(lutsize)
interp(self, lutsize) ==
    IF lutsize < 0 THEN InvalidSize                       \* np.linspace
    ELSE IF self.colors.ndim < 2 THEN Err("IndexError")   \* colors.shape[1]
    ELSE IF self.N <= 0 THEN Err("ValueError")            \* np.interp: no sample points
    ELSE IF self.N # Len(self.colors.data) THEN Err("ValueError")  \* np.interp: len(xp) # len(fp)
    ELSE IF self.colors.dtype # "f" THEN Err("TypeError")  \* np.interp: not castable to float
    ELSE LET w == self.colors.cols
             col(c) == [r \in 1..Len(self.colors.data) |-> self.colors.data[r][c]]
             rows == [j \in 1..lutsize |->
                        [c \in 1..w |-> InterpAt(col(c), lutsize, j - 1)]]
         IN ListedColormap(PyArray(Arr2(w, rows)), Prefix_interp \o self.name, None)


\* the rows np.vstack stacks: a 1-D array of n scalars is one row of width n
Rows2d(a) == IF a.ndim = 2 THEN a.data ELSE <<a.data>>
Width(a) == IF a.ndim = 2 THEN a.cols ELSE Len(a.data)

Sep == <<"_">>

\* ListedColormap.__add__(other)
add(self, other) ==
    IF Width(self.colors) # Width(other.colors) THEN Err("ValueError")  \* np.vstack
    ELSE LET st == [ndim |-> 2, cols |-> Width(self.colors), dtype |-> self.colors.dtype,
                    data |-> Rows2d(self.colors) \o Rows2d(other.colors)]
         IN ListedColormap(PyArray(st), self.name \o Sep \o other.name, None)

DigitChars == <<"0", "1", "2", "3", "4", "5", "6", "7", "8", "9">>
RECURSIVE IntStr(_)
\* str(num) for num >= 0
IntStr(n) == IF n < 10 THEN <<DigitChars[n + 1]>>
             ELSE IntStr(n \div 10) \o <<DigitChars[(n % 10) + 1]>>

\* ListedColormap.__mul__(num)
mul(self, num) ==
    IF num < 0 THEN Err("ValueError")                     \* np.repeat
    ELSE ListedColormap(
            PyArray([self.colors EXCEPT !.data = RepeatEach(self.colors.data, num)]),
            self.name \o <<"_", "r", "e", "p", "(">> \o IntStr(num) \o <<")">>, None)

\* slice(start, stop, step).indices(n), as the 0-based indices selected
SliceIndices(n, start, stop, step) ==
    LET st == IF step = None THEN 1 ELSE step[1]
        lo == IF st > 0 THEN 0 ELSE -1
        hi == IF st > 0 THEN n ELSE n - 1
        norm(v) == IF v < 0 THEN Max(v + n, lo) ELSE Min(v, hi)
        b == IF start = None THEN (IF st > 0 THEN lo ELSE hi) ELSE norm(start[1])
        e == IF stop = None THEN (IF st > 0 THEN hi ELSE lo) ELSE norm(stop[1])
        cnt == IF st > 0
               THEN (IF e > b THEN ((e - b - 1) \div st) + 1 ELSE 0)
               ELSE (IF b > e THEN ((b - e - 1) \div (-st)) + 1 ELSE 0)
    IN [i \in 1..cnt |-> b + (i - 1) * st]

Suffix_slice == <<"_", "s", "l", "i", "c", "e">>

\* ListedColormap.__getitem__(slice(start, stop, step))
getitem_slice(self, start, stop, step) ==
    IF step # None /\ step[1] = 0 THEN Err("ValueError")  \* slice step cannot be zero
    ELSE LET ix == SliceIndices(Len(self.colors.data), start, stop, step)
             sel == [i \in 1..Len(ix) |-> self.colors.data[ix[i] + 1]]
         IN ListedColormap(PyArray([self.colors EXCEPT !.data = sel]),
                           self.name \o Suffix_slice, None)

\* ListedColormap.__getitem__(i) for an int i
getitem_int(self, i) ==
    LET n == Len(self.colors.data)
        k == IF i < 0 THEN i + n ELSE i
    IN IF k < 0 \/ k >= n THEN Err("IndexError")
       ELSE IF self.colors.ndim = 2
            THEN ListedColormap(PyArray(Arr1(self.colors.dtype, self.colors.data[k + 1])),
                                self.name \o Suffix_slice, None)
       \* a numpy scalar: np.str_ is a str (no N given), np.float64 is no colour container
       ELSE IF self.colors.dtype = "U" THEN Err("ValueError")
       ELSE Err("TypeError")

(* --------------------------- the value algebra ------------------------ *)
\* colour tables as the loader hands them over
TabRGB == Arr2(3, << <<Unit, 0, 0>>, <<0, Unit, 0>>, <<0, 0, Unit>> >>)
TabRGBA == Arr2(4, << <<0, 0, 0, Unit>>, <<Unit, Unit, Unit, Unit>> >>)
TabOne == Arr2(3, << <<Unit, Unit, 0>> >>)
TabEmpty == Arr1("f", <<>>)
Tables == {TabRGB, TabRGBA, TabOne, TabEmpty}

NameT == <<"t">>
ColorRed == <<"r", "e", "d">>


(* --------------------------- the host registry ------------------------ *)
\* a colormap of matplotlib's own (it has reversed() but no interp())
HostCmap(name, arr) ==
    [name |-> name, colors |-> arr, N |-> Len(arr.data), monochrome |-> FALSE,
     cls |-> "mpl"]

\* matplotlib.colors.ListedColormap.reversed()
mpl_reversed(c) ==
    Ok([c EXCEPT !.name = c.name \o Suffix_r, !.colors.data = Flip(c.colors.data)])

\* plt.get_cmap(cname)
plt_get_cmap(reg, cname) ==
    IF cname \in DOMAIN reg THEN Ok(reg[cname]) ELSE NotFound

\* mpl.colormaps.register(name=cname, cmap=cmap): a used name is refused
register(reg, cname, cmap) ==
    IF cname \in DOMAIN reg THEN Err("ValueError")
    ELSE [kind |-> "ok",
          reg |-> [n \in DOMAIN reg \cup {cname} |-> IF n = cname THEN cmap ELSE reg[n]]]

(* --------------------------- UniversalColormap ------------------------ *)
IsDigit(ch) == \E i \in 1..Len(DigitChars) : DigitChars[i] = ch
Contains(s, ch) == \E i \in 1..Len(s) : s[i] = ch
\* str.replace(a, b) for one-character a and b
Replace(s, a, b) == [i \in 1..Len(s) |-> IF s[i] = a THEN b ELSE s[i]]

Prefix_cmaps == <<"c", "m", "a", "p", "s", "_">>

\* the name a .rgb file is registered under, from its basename without extension
Sanitize(base) ==
    LET c1 == IF IsDigit(base[1]) \/ base[1] = "_" THEN <<"C">> \o base ELSE base
        c2 == IF Contains(c1, "-") THEN Prefix_cmaps \o Replace(c1, "-", "_") ELSE c1
        c3 == IF Contains(c2, "+") THEN Prefix_cmaps \o Replace(c2, "+", "_") ELSE c2
    IN c3

\* the characters names are made of, by code point
AsciiOrder ==
    <<"(", ")", "+", "-">> \o DigitChars \o <<"C", "_">> \o
    <<"a", "b", "c", "d", "e", "f", "g", "h", "i", "j", "k", "l", "m",
      "n", "o", "p", "q", "r", "s", "t", "u", "v", "w", "x", "y", "z">>
Ord(ch) == CHOOSE i \in 1..Len(AsciiOrder) : AsciiOrder[i] = ch

\* a < b for Python str
StrLess(a, b) ==
    \E i \in 1..(Len(b)) :
        /\ \A j \in 1..(i - 1) : j <= Len(a) /\ a[j] = b[j]
        /\ \/ i = Len(a) + 1
           \/ i <= Len(a) /\ Ord(a[i]) < Ord(b[i])

RECURSIVE sorted(_)
\* sorted(list(S)) for a set of str
sorted(S) ==
    IF S = {} THEN <<>>
    ELSE LET m == CHOOSE x \in S : \A y \in S \ {x} : StrLess(x, y)
         IN <<m>> \o sorted(S \ {m})

\* UniversalColormap.get_cmap(cname, lutsize=, reverse=)
repo_get_cmap(reg, cname, lutsize, reverse) ==
    LET found == plt_get_cmap(reg, cname) IN
    IF found.kind # "ok" THEN found
    ELSE LET sized == IF ~Truthy(lutsize) THEN found
                      ELSE IF found.cmap.cls = "mpl" THEN Err("AttributeError")
                      ELSE interp(found.cmap, lutsize[1])
         IN IF sized.kind # "ok" \/ ~reverse THEN sized
            ELSE IF sized.cmap.cls = "mpl" THEN mpl_reversed(sized.cmap)
            ELSE reversed(sized.cmap, None)

\* cmaps.get_cmap(cname, lutsize=, reverse=)
get_cmap(reg, cname, lutsize, reverse) ==
    IF EndsWith_r(cname) THEN repo_get_cmap(reg, DropLast2(cname), lutsize, TRUE)
    ELSE repo_get_cmap(reg, cname, lutsize, reverse)

VARIABLES
    T,         \* the colormap value operated on
    hist,      \* history of T: how it was derived
    out,       \* the last operation applied to T, its arguments and its outcome
    nops,      \* operations chained so far
    registry,  \* mpl.colormaps: name -> colormap
    phase,     \* position of UniversalColormap.__init__
    names,     \* cmap_name_list of the instance under construction (a set)
    lists,     \* self.cmap_name_list of every constructed instance, in order
    nread,     \* entries scanned so far
    last,      \* the last entry scanned: its name and what the name held before
    result     \* the last call of the public get_cmap and its outcome

algvars == <<T, hist, out, nops>>
regvars == <<registry, phase, names, lists, nread, last, result>>
vars == <<T, hist, out, nops, registry, phase, names, lists, nread, last, result>>

NoCall == [op |-> "none"]

\* a history: plain = built from a non-empty loaded table by interp, reversed,
\* slices, + and * only; emptied = some step selected or asked for no entry
Hist(plain, emptied) == [plain |-> plain, emptied |-> emptied]

FromTable(tab) == ListedColormap(PyArray(tab), NameT, None).cmap
Operands == {FromTable(tab) : tab \in Tables}

OptInts(S) == {None} \cup {Some(n) : n \in S}

Fits(o) == o.kind = "ok" => Len(o.cmap.colors.data) <= MaxLen

\* ListedColormap(colors, name, N) on fresh arguments
Construct(colors, N) ==
    /\ out = NoCall
    /\ LET o == ListedColormap(colors, NameT, N) IN
        /\ Fits(o)
        /\ out' = [op |-> "new", colors |-> colors, N |-> N, before |-> T, res |-> o,
                   hist |-> Hist(colors.type = "list" /\ colors.arr # TabEmpty, FALSE)]
    /\ UNCHANGED <<T, hist, nops>>

DoInterp(k) ==
    /\ out = NoCall
    /\ out' = [op |-> "interp", k |-> k, before |-> T, res |-> interp(T, k),
               hist |-> Hist(hist.plain, hist.emptied \/ k = 0)]
    /\ UNCHANGED <<T, hist, nops>>

DoReversed ==
    /\ out = NoCall
    /\ out' = [op |-> "reversed", before |-> T, res |-> reversed(T, None), hist |-> hist]
    /\ UNCHANGED <<T, hist, nops>>

DoSlice(start, stop, step) ==
    /\ out = NoCall
    /\ out' = [op |-> "slice", start |-> start, stop |-> stop, step |-> step,
               before |-> T, res |-> getitem_slice(T, start, stop, step),
               hist |-> Hist(hist.plain,
                             \/ hist.emptied
                             \/ step = Some(0)
                             \/ SliceIndices(Len(T.colors.data), start, stop, step) = <<>>)]
    /\ UNCHANGED <<T, hist, nops>>

DoIndex(i) ==
    /\ out = NoCall
    /\ out' = [op |-> "index", i |-> i, before |-> T, res |-> getitem_int(T, i),
               hist |-> Hist(FALSE, hist.emptied)]
    /\ UNCHANGED <<T, hist, nops>>

DoAdd(other) ==
    /\ out = NoCall
    /\ other.colors.dtype = T.colors.dtype
    /\ LET o == add(T, other) IN
        /\ Fits(o)
        /\ out' = [op |-> "add", other |-> other, before |-> T, res |-> o,
                   hist |-> Hist(/\ hist.plain
                                 /\ (other = T \/ other.colors # TabEmpty), hist.emptied)]
    /\ UNCHANGED <<T, hist, nops>>

DoMul(num) ==
    /\ out = NoCall
    /\ LET o == mul(T, num) IN
        /\ Fits(o)
        /\ out' = [op |-> "mul", num |-> num, before |-> T, res |-> o,
                   hist |-> Hist(hist.plain, hist.emptied \/ num = 0)]
    /\ UNCHANGED <<T, hist, nops>>

\* the program goes on with the colormap the last operation returned
Chain ==
    /\ out.op # "none"
    /\ out.res.kind = "ok"
    /\ nops < MaxOps
    /\ T' = out.res.cmap
    /\ hist' = out.hist
    /\ out' = NoCall
    /\ nops' = nops + 1

AlgInit ==
    /\ \E tab \in Tables :
        /\ T = FromTable(tab)
        /\ hist = Hist(tab # TabEmpty, FALSE)
    /\ out = NoCall
    /\ nops = 0
    /\ registry = <<>>
    /\ phase = "new"
    /\ names = {}
    /\ lists = <<>>
    /\ nread = 0
    /\ last = NoCall
    /\ result = NoCall

AlgNext ==
    \/ \E colors \in {PyList(tab) : tab \in Tables} \cup {PyStr(ColorRed), PyOther},
          N \in OptInts(0..MaxLut) : Construct(colors, N) /\ UNCHANGED regvars
    \/ \E k \in (-1)..MaxLut : DoInterp(k) /\ UNCHANGED regvars
    \/ DoReversed /\ UNCHANGED regvars
    \/ \E start \in OptInts({-1, 1}), stop \in OptInts({0, 2}), step \in OptInts({-1, 0, 2}) :
          DoSlice(start, stop, step) /\ UNCHANGED regvars
    \/ \E i \in {-1, 0, MaxLen} : DoIndex(i) /\ UNCHANGED regvars
    \/ \E other \in Operands \cup {T} : DoAdd(other) /\ UNCHANGED regvars
    \/ \E num \in (-1)..MaxLut : DoMul(num) /\ UNCHANGED regvars
    \/ Chain /\ UNCHANGED regvars

SpecAlgebra == AlgInit /\ [][AlgNext]_vars

(* --------------------------- the registry scan ------------------------ *)
MaxEntries == 3     \* pickle entries and .rgb files scanned, over all instances
MaxInstances == 2   \* UniversalColormap instances constructed

NameA == <<"a">>
NameJet == <<"j", "e", "t">>
\* names the host registry may hold before the package is imported
HostNames == {NameA, NameJet, NameJet \o Suffix_r}
\* matplotlib registers its own colormaps in both directions; NameA is a
\* colormap somebody registered before the import
HostRegistries ==
    {[n \in S |-> HostCmap(n, TabRGBA)] : S \in {HostNames \ {NameA}, HostNames}}

\* what a pickled dictionary may map a name to
PickleNames == {NameA, <<"p", "_", "r">>}
PickleValues == {PyList(TabRGBA), PyStr(ColorRed), PyOther}
\* .rgb files: basename and the array _color_table reads from the file
RgbBasenames == {NameA, <<"a", "_", "r">>, <<"b", "-", "c">>, <<"b", "+", "c">>,
                 <<"_", "1">>}
RgbTables == {TabRGB, TabEmpty}

\* the try block of the scan: build the colormap, register it, note the name;
\* only ValueError is caught
TryRegister(cname, made) ==
    /\ last' = [cname |-> cname, made |-> made.kind,
                used |-> cname \in DOMAIN registry,
                prev |-> IF cname \in DOMAIN registry THEN Ok(registry[cname])
                         ELSE Err("unused")]
    /\ nread' = nread + 1
    /\ IF made.kind = "ValueError" THEN UNCHANGED <<registry, names, phase>>
       ELSE IF made.kind # "ok" THEN
            /\ phase' = "aborted"
            /\ UNCHANGED <<registry, names>>
       ELSE LET r == register(registry, cname, made.cmap) IN
            IF r.kind = "ok"
            THEN /\ registry' = r.reg
                 /\ names' = names \cup {cname}
                 /\ UNCHANGED phase
            ELSE UNCHANGED <<registry, names, phase>>

\* UniversalColormap(): the name list starts from the host registry
Begin ==
    /\ phase \in {"new", "done"}
    /\ Len(lists) < MaxInstances
    /\ names' = {n \in DOMAIN registry : ~EndsWith_r(n)}
    /\ phase' = "pkl"
    /\ last' = NoCall
    /\ result' = NoCall
    /\ UNCHANGED <<registry, lists, nread>>

\* one (cname, colors) item of a pickled dictionary
LoadPickleEntry(cname, colors) ==
    /\ phase = "pkl"
    /\ nread < MaxEntries
    /\ TryRegister(cname, ListedColormap(colors, cname, None))
    /\ UNCHANGED <<lists, result>>

EndPickles ==
    /\ phase = "pkl"
    /\ phase' = "rgb"
    /\ UNCHANGED <<registry, names, lists, nread, last, result>>

\* one .rgb file
LoadRgbFile(base, table) ==
    /\ phase = "rgb"
    /\ nread < MaxEntries
    /\ LET cname == Sanitize(base)
       IN TryRegister(cname, ListedColormap(PyArray(table), cname, None))
    /\ UNCHANGED <<lists, result>>

\* the last statement of __init__
Finish ==
    /\ phase = "rgb"
    /\ lists' = Append(lists, sorted(names))
    /\ phase' = "done"
    /\ last' = NoCall
    /\ UNCHANGED <<registry, names, nread, result>>

\* get_cmap_list() of the module: the list of repo, the first instance
get_cmap_list == IF lists = <<>> THEN <<>> ELSE lists[1]

\* names a caller asks for: listed ones, their reversed forms, an unknown one
LookupNames ==
    LET listed == {get_cmap_list[i] : i \in 1..Len(get_cmap_list)} IN
    listed \cup {n \o Suffix_r : n \in listed} \cup {<<"z">>}
LookupSizes == OptInts({-1, 0, MaxLut})

\* a call of the module's get_cmap
GetCmap(cname, lutsize, reverse) ==
    /\ phase \in {"done", "aborted"}
    /\ lists # <<>>
    /\ result = NoCall
    /\ result' = [op |-> "get_cmap", cname |-> cname, lutsize |-> lutsize,
                  reverse |-> reverse,
                  res |-> get_cmap(registry, cname, lutsize, reverse)]
    /\ UNCHANGED <<registry, phase, names, lists, nread, last>>

Init ==
    /\ registry \in HostRegistries
    /\ phase = "new"
    /\ names = {}
    /\ lists = <<>>
    /\ nread = 0
    /\ last = NoCall
    /\ result = NoCall
    /\ T = FromTable(TabRGB)
    /\ hist = Hist(TRUE, FALSE)
    /\ out = NoCall
    /\ nops = 0

Next ==
    \/ Begin /\ UNCHANGED algvars
    \/ \E cname \in PickleNames, colors \in PickleValues :
          LoadPickleEntry(cname, colors) /\ UNCHANGED algvars
    \/ EndPickles /\ UNCHANGED algvars
    \/ \E base \in RgbBasenames, table \in RgbTables :
          LoadRgbFile(base, table) /\ UNCHANGED algvars
    \/ Finish /\ UNCHANGED algvars
    \/ \E cname \in LookupNames, lutsize \in LookupSizes, reverse \in BOOLEAN :
          GetCmap(cname, lutsize, reverse) /\ UNCHANGED algvars

Spec == Init /\ [][Next]_vars

(* --------------------------- claims on the registry ------------------- *)
Listed == {get_cmap_list[i] : i \in 1..Len(get_cmap_list)}
Looked == result.op = "get_cmap"
\* the registry name a lookup resolves to, once the facade has cut a final _r
Resolved(cname) == IF EndsWith_r(cname) THEN DropLast2(cname) ELSE cname
OwnEntry(n) == n \in DOMAIN registry /\ registry[n].cls = "cmaps"

\* C1 (as claimed): whatever the host registry held and whatever entries were
\* scanned, no name of a constructed instance's name list ends with _r.
C1_NoReversedNameListed ==
    \A i \in 1..Len(lists) : \A j \in 1..Len(lists[i]) : ~EndsWith_r(lists[i][j])

\* C2 (as claimed): for every listed name n and every lutsize, get_cmap(n + "_r")
\* and get_cmap(n, reverse=True) give the same outcome: the same colormap
\* (entries, order, name), interpolated first and reversed after.
C2_SuffixIsReverseFlag ==
    \A n \in Listed : \A k \in LookupSizes :
        get_cmap(registry, n \o Suffix_r, k, FALSE) = get_cmap(registry, n, k, TRUE)

C4_ScanSurvivesBadEntries ==
    /\ phase # "aborted"
    /\ (last # NoCall /\ last.made = "ok" /\ ~last.used) =>
          /\ last.cname \in DOMAIN registry
          /\ last.cname \in names

\* C5 (as claimed): an entry scanned for a name already in use is swallowed
\* without raising and leaves the registry entry of that name as the first
\* registration made it.
C5_FirstRegistrationWins ==
    (last # NoCall /\ last.used) =>
        /\ phase # "aborted"
        /\ last.cname \in DOMAIN registry
        /\ Ok(registry[last.cname]) = last.prev

\* C10 (as claimed): get_cmap(n) of a listed name n, with no lutsize and no
\* reverse, returns the colormap registered under n, also when n ends with _r.
C10_ListedNameResolves ==
    (Looked /\ result.cname \in Listed /\ result.lutsize = None /\ ~result.reverse) =>
        /\ result.cname \in DOMAIN registry
        /\ result.res = Ok(registry[result.cname])

(* cross-checks: what is left of C2, C5 and C10 without the faults of C1, C4 *)
C2_HoldsOffSuffix ==
    \A n \in Listed : \A k \in LookupSizes :
        ~EndsWith_r(n) =>
            get_cmap(registry, n \o Suffix_r, k, FALSE) = get_cmap(registry, n, k, TRUE)
C5_HoldsWhenBuilt ==
    (last # NoCall /\ last.used /\ last.made \in {"ok", "ValueError"}) =>
        /\ phase # "aborted"
        /\ Ok(registry[last.cname]) = last.prev
C10_HoldsOffSuffix ==
    (Looked /\ result.cname \in Listed /\ result.lutsize = None /\ ~result.reverse
       /\ ~EndsWith_r(result.cname)) =>
        result.res = Ok(registry[result.cname])

(* --------------------------- claims on the value type ----------------- *)
Called(op) == out.op = op /\ out.res.kind = "ok"
Entries(c) == c.colors.data

\* C6 (as claimed): a list of L >= 1 colours built with a target length N >= 1
\* gives the first N colours when N < L, the whole list tiled and cut to N
\* entries (entry i is colour i mod L) when N > L, and the list itself with no N.
C6_TiledToLength ==
    (out.op = "new" /\ out.colors.type = "list" /\ Len(out.colors.arr.data) >= 1) =>
        LET src == out.colors.arr.data
            L == Len(src)
        IN /\ out.res.kind = "ok"
           /\ out.N = None => Entries(out.res.cmap) = src
           /\ (out.N # None /\ out.N[1] >= 1) =>
                 /\ Len(Entries(out.res.cmap)) = out.N[1]
                 /\ \A i \in 1..out.N[1] :
                       Entries(out.res.cmap)[i] = src[((i - 1) % L) + 1]

\* C7 (as claimed): interp(k) on any colormap of N >= 1 entries, for any
\* k >= 1, returns a colormap of exactly k entries and leaves the receiver as
\* it was.
C7_InterpLength ==
    (out.op = "interp" /\ out.before.N >= 1 /\ out.k >= 1) =>
        /\ out.res.kind = "ok"
        /\ out.res.cmap.N = out.k
        /\ Len(Entries(out.res.cmap)) = out.k
        /\ T = out.before

\* C8: reversed() returns the entries in the opposite order, as many as the
\* receiver has; reversing the result again gives the receiver's entries; the
\* receiver is left as it was.
C8_ReversedInvolution ==
    out.op = "reversed" =>
        /\ out.res.kind = "ok"
        /\ LET n == Len(Entries(T))
               r == out.res.cmap
           IN /\ Len(Entries(r)) = n
              /\ \A i \in 1..n : Entries(r)[i] = Entries(T)[n + 1 - i]
              /\ reversed(r, None).kind = "ok"
              /\ Entries(reversed(r, None).cmap) = Entries(T)
              /\ reversed(r, None).cmap.colors = T.colors
        /\ T = out.before

\* C8 witness: reversed() was applied to a colormap of several distinct entries
C8_Witness ==
    /\ Called("reversed")
    /\ Len(Entries(T)) >= 2
    /\ Entries(out.res.cmap) # Entries(T)

\* the shape a colormap derived from loaded tables keeps
WellFormed(c, h) ==
    h.plain =>
        /\ c.colors.ndim = 2
        /\ c.colors.cols \in {3, 4}
        /\ \A i \in 1..Len(Entries(c)) : Len(Entries(c)[i]) = c.colors.cols
        /\ c.N = Len(Entries(c))
        /\ ~h.emptied => c.N >= 1

====
